---- MODULE Spec2Model ----
(***************************************************************************)
(* Model of script.js: the page script that reads `room` and `name` from   *)
(* the page's query string, opens one WebSocket to a fixed server URL and  *)
(* forwards JSON-parsed messages to the global function handleMessage.     *)
(*                                                                         *)
(* Text is modelled as a sequence of one-character strings, so that the    *)
(* query-string parser, the template literal and the JSON parser work on   *)
(* characters as the browser does.  A JavaScript value is a record         *)
(* [kind, repr]: its type and its canonical text.                          *)
(***************************************************************************)
EXTENDS Integers, Sequences, FiniteSets, TLC

VARIABLES
    search,         \* window.location.search of the page
    pc,             \* "load" before the script has run, "done" after
    room,           \* const room
    name,           \* const name
    wsUrl,          \* the URL given to the WebSocket constructor
    sockets,        \* number of WebSocket objects the script has constructed
    readyState,     \* "none", "connecting", "open", "closed"
    handleMessage,  \* typeof of the global handleMessage
    received,       \* message events delivered to ws.onmessage, in order
    calls,          \* arguments of the invocations of handleMessage, in order
    faults,         \* number of errors that left a callback uncaught
    logged          \* number of console.log lines written by ws.onopen

vars == <<search, pc, room, name, wsUrl, sockets, readyState, handleMessage,
          received, calls, faults, logged>>

(***************************************************************************)
(* Bounds of the model.                                                    *)
(***************************************************************************)
MaxParams == 2      \* parameters in the page's query string
MaxMsgs == 2        \* message events delivered to the connection

(***************************************************************************)
(* Text helpers.                                                           *)
(***************************************************************************)
ROOM == <<"r", "o", "o", "m">>
NAME == <<"n", "a", "m", "e">>

\* First index j >= i with s[j] = c, or Len(s) + 1 when there is none.
RECURSIVE IndexFrom(_, _, _)
IndexFrom(s, c, i) ==
    IF i > Len(s) THEN Len(s) + 1
    ELSE IF s[i] = c THEN i
    ELSE IndexFrom(s, c, i + 1)

\* The pieces of s between occurrences of c (String.prototype.split).
RECURSIVE Split(_, _)
Split(s, c) ==
    LET j == IndexFrom(s, c, 1)
    IN  IF j > Len(s) THEN <<s>>
        ELSE <<SubSeq(s, 1, j - 1)>> \o Split(SubSeq(s, j + 1, Len(s)), c)

RECURSIVE Join(_, _)
Join(parts, c) ==
    IF parts = <<>> THEN <<>>
    ELSE IF Len(parts) = 1 THEN parts[1]
    ELSE parts[1] \o <<c>> \o Join(Tail(parts), c)

(***************************************************************************)
(* new URLSearchParams(window.location.search) and urlParams.get           *)
(* (script.js line 2 to 4): the application/x-www-form-urlencoded parser.  *)
(***************************************************************************)

\* The percent-escapes of the characters the model's texts use.
HexPairs == {<<"2", "6">>, <<"3", "D">>, <<"2", "3">>, <<"2", "0">>}

DecodedByte(h) ==
    CASE h = <<"2", "6">> -> "&"
      [] h = <<"3", "D">> -> "="
      [] h = <<"2", "3">> -> "#"
      [] h = <<"2", "0">> -> " "

\* %XX becomes the character it escapes; a % that starts no escape stays.
RECURSIVE PercentDecode(_)
PercentDecode(s) ==
    IF s = <<>> THEN <<>>
    ELSE IF s[1] = "%" /\ Len(s) >= 3 /\ <<s[2], s[3]>> \in HexPairs
         THEN <<DecodedByte(<<s[2], s[3]>>)>> \o PercentDecode(SubSeq(s, 4, Len(s)))
         ELSE <<s[1]>> \o PercentDecode(Tail(s))

RECURSIVE PlusToSpace(_)
PlusToSpace(s) ==
    IF s = <<>> THEN <<>>
    ELSE <<IF s[1] = "+" THEN " " ELSE s[1]>> \o PlusToSpace(Tail(s))

FormDecode(s) == PercentDecode(PlusToSpace(s))

\* One name=value piece: split at the first "=", a piece without "=" has
\* the empty value.
ParsePiece(p) ==
    LET j == IndexFrom(p, "=", 1)
    IN  [name  |-> FormDecode(SubSeq(p, 1, j - 1)),
         value |-> FormDecode(SubSeq(p, j + 1, Len(p)))]

RECURSIVE ParsePieces(_)
ParsePieces(ps) ==
    IF ps = <<>> THEN <<>>
    ELSE IF ps[1] = <<>> THEN ParsePieces(Tail(ps))
    ELSE <<ParsePiece(ps[1])>> \o ParsePieces(Tail(ps))

\* new URLSearchParams(init): one leading "?" is dropped, the rest is split
\* on "&" and empty pieces are skipped.
URLSearchParams(init) ==
    LET q == IF init # <<>> /\ init[1] = "?" THEN Tail(init) ELSE init
    IN  ParsePieces(Split(q, "&"))

\* urlParams.get(key): the value of the first pair named key, or null
\* (present = FALSE).
RECURSIVE Get(_, _)
Get(list, key) ==
    IF list = <<>> THEN [present |-> FALSE, value |-> <<>>]
    ELSE IF list[1].name = key THEN [present |-> TRUE, value |-> list[1].value]
    ELSE Get(Tail(list), key)

\* Mutant of OrDefault: the nullish v ?? d, which keeps the empty string.
OrDefaultNullish(v, d) == IF v.present THEN v.value ELSE d

\* v || d on a string-or-null v: null and the empty string are falsy.
OrDefault(v, d) == IF v.present /\ v.value # <<>> THEN v.value ELSE d

DefaultRoom == <<"d", "e", "f", "a", "u", "l", "t">>
DefaultName == <<"a", "n", "o", "n", "y", "m", "o", "u", "s">>

serverUrl ==
    <<"w", "s", "s", ":", "/", "/", "y", "o", "u", "r", "-", "b", "a", "c", "k",
      "e", "n", "d", ".", "o", "n", "r", "e", "n", "d", "e", "r", ".", "c", "o",
      "m", "/", "w", "s">>

\* Mutant of ConnectionUrl: the two values in each other's place.
ConnectionUrlSwapped(r, n) ==
    serverUrl \o <<"?">> \o ROOM \o <<"=">> \o n \o <<"&">> \o NAME \o <<"=">> \o r

\* The template literal `${serverUrl}?room=${room}&name=${name}`.
ConnectionUrl(r, n) ==
    serverUrl \o <<"?">> \o ROOM \o <<"=">> \o r \o <<"&">> \o NAME \o <<"=">> \o n

(***************************************************************************)
(* The page's query strings the model starts from.                         *)
(***************************************************************************)
Keys == {ROOM, NAME, <<"x">>}

\* Raw (still encoded) values: empty, plain, and values that decode to
\* text holding "&", "=", "#" or a space.
RawValues ==
    {<<>>, <<"a">>, <<"b">>,
     <<"a", "%", "2", "6", "b">>,
     <<"a", "%", "3", "D", "b">>,
     <<"a", "%", "2", "3", "b">>,
     <<"a", "+", "b">>,
     <<"a", "=", "b">>}

Pieces == {<<>>} \cup Keys \cup {k \o <<"=">> \o v : k \in Keys, v \in RawValues}

PieceLists(n) == UNION {[1..m -> Pieces] : m \in 1..n}

\* location.search is empty when the page URL has no query, and "?" followed
\* by the query otherwise.
Searches ==
    {<<>>} \cup {<<"?">> \o q : q \in {Join(ps, "&") : ps \in PieceLists(MaxParams)} \ {<<>>}}

\* A few query strings for the runs that follow the connection's events.
SampleSearches ==
    {<<>>,
     <<"?">> \o ROOM \o <<"=">> \o <<"a">>,
     <<"?">> \o NAME \o <<"=">> \o <<"b">> \o <<"&">> \o ROOM \o <<"=">>,
     <<"?">> \o ROOM \o <<"=">> \o <<"a", "%", "2", "6", "b">> \o <<"&">>
             \o NAME \o <<"=">> \o <<"b">>}

(***************************************************************************)
(* JSON.parse (script.js line 14) on the JSON texts made of numbers,       *)
(* strings without escapes, arrays and blanks.  The result is the parsed   *)
(* value, [kind, repr], or a SyntaxError (ok = FALSE).                     *)
(***************************************************************************)
Digits == {"1", "2"}

Undefined == [kind |-> "undefined", repr |-> <<>>]

\* A JavaScript string value.
StringValue(s) == [kind |-> "string", repr |-> s]

RECURSIVE SkipWs(_, _)
SkipWs(s, i) ==
    IF i <= Len(s) /\ s[i] = " " THEN SkipWs(s, i + 1) ELSE i

RECURSIVE DigitsEnd(_, _)
DigitsEnd(s, i) ==
    IF i <= Len(s) /\ s[i] \in Digits THEN DigitsEnd(s, i + 1) ELSE i

ParseFail == [ok |-> FALSE, kind |-> "undefined", repr |-> <<>>, next |-> 0]

\* The canonical text of a parsed value, as it stands inside an array.
ValueText(v) ==
    IF v.kind = "string" THEN <<"\"">> \o v.repr \o <<"\"">> ELSE v.repr

RECURSIVE ParseValue(_, _)
RECURSIVE ParseElements(_, _, _)

\* The value that starts at s[i], i being on a non-blank character.
ParseValue(s, i) ==
    IF i > Len(s) THEN ParseFail
    ELSE IF s[i] \in Digits THEN
        LET j == DigitsEnd(s, i)
        IN  [ok |-> TRUE, kind |-> "number", repr |-> SubSeq(s, i, j - 1), next |-> j]
    ELSE IF s[i] = "\"" THEN
        LET j == IndexFrom(s, "\"", i + 1)
        IN  IF j > Len(s) THEN ParseFail
            ELSE [ok |-> TRUE, kind |-> "string", repr |-> SubSeq(s, i + 1, j - 1),
                  next |-> j + 1]
    ELSE IF s[i] = "[" THEN
        LET k == SkipWs(s, i + 1)
        IN  IF k <= Len(s) /\ s[k] = "]"
            THEN [ok |-> TRUE, kind |-> "array", repr |-> <<"[", "]">>, next |-> k + 1]
            ELSE ParseElements(s, k, <<"[">>)
    ELSE ParseFail

\* The elements of an array from s[i] on, acc being the canonical text so far.
ParseElements(s, i, acc) ==
    LET v == ParseValue(s, i)
    IN  IF ~v.ok THEN ParseFail
        ELSE LET k == SkipWs(s, v.next)
                 acc2 == acc \o ValueText(v)
             IN  IF k > Len(s) THEN ParseFail
                 ELSE IF s[k] = "," THEN ParseElements(s, SkipWs(s, k + 1), acc2 \o <<",">>)
                 ELSE IF s[k] = "]"
                      THEN [ok |-> TRUE, kind |-> "array", repr |-> acc2 \o <<"]">>,
                            next |-> k + 1]
                 ELSE ParseFail

JSONparse(text) ==
    LET v == ParseValue(text, SkipWs(text, 1))
    IN  IF v.ok /\ SkipWs(text, v.next) > Len(text)
        THEN [ok |-> TRUE, value |-> [kind |-> v.kind, repr |-> v.repr]]
        ELSE [ok |-> FALSE, value |-> Undefined]

\* The text frames the server sends in the model: 12, [1, "a"] with blanks
\* around it, "a", the truncated [1, and the empty frame.
Frames ==
    {<<"1", "2">>,
     <<" ", "[", "1", ",", " ", "\"", "a", "\"", "]", " ">>,
     <<"\"", "a", "\"">>,
     <<"[", "1">>,
     <<>>}

\* What typeof handleMessage can yield: no such global, a global bound to a
\* non-function, a function.
HandlerTypes == {"undefined", "object", "function"}

\* Mutant of OnMessage: event.data is handed over without JSON.parse.
OnMessageRaw(data, h, throws) ==
    IF h = "function"
    THEN [steps |-> <<"typeof", "call">>, called |-> TRUE,
          arg |-> StringValue(data), fault |-> throws]
    ELSE [steps |-> <<"typeof">>, called |-> FALSE, arg |-> Undefined,
          fault |-> FALSE]

\* Mutant of OnMessage: the parse error is caught and the message skipped.
OnMessageCatching(data, h, throws) ==
    LET parsed == JSONparse(data)
    IN  IF ~parsed.ok
        THEN [steps |-> <<"parse">>, called |-> FALSE, arg |-> Undefined,
              fault |-> FALSE]
        ELSE IF h = "function"
        THEN [steps |-> <<"parse", "typeof", "call">>, called |-> TRUE,
              arg |-> parsed.value, fault |-> throws]
        ELSE [steps |-> <<"parse", "typeof">>, called |-> FALSE, arg |-> Undefined,
              fault |-> FALSE]

\* Mutant of OnMessage: handleMessage(data) without the typeof test, which
\* is a ReferenceError or TypeError when handleMessage is no function.
OnMessageUnguarded(data, h, throws) ==
    LET parsed == JSONparse(data)
    IN  IF ~parsed.ok
        THEN [steps |-> <<"parse">>, called |-> FALSE, arg |-> Undefined,
              fault |-> TRUE]
        ELSE IF h = "function"
        THEN [steps |-> <<"parse", "call">>, called |-> TRUE,
              arg |-> parsed.value, fault |-> throws]
        ELSE [steps |-> <<"parse", "call">>, called |-> FALSE, arg |-> Undefined,
              fault |-> TRUE]

(***************************************************************************)
(* ws.onmessage (script.js line 13 to 16), run on a message whose data is  *)
(* `data` while typeof handleMessage is h; `throws` says whether the       *)
(* handler, if called, throws.  steps are the statements executed.         *)
(***************************************************************************)
OnMessage(data, h, throws) ==
    LET parsed == JSONparse(data)
    IN  IF ~parsed.ok
        THEN [steps |-> <<"parse">>, called |-> FALSE, arg |-> Undefined,
              fault |-> TRUE]
        ELSE IF h = "function"
        THEN [steps |-> <<"parse", "typeof", "call">>, called |-> TRUE,
              arg |-> parsed.value, fault |-> throws]
        ELSE [steps |-> <<"parse", "typeof">>, called |-> FALSE, arg |-> Undefined,
              fault |-> FALSE]

(***************************************************************************)
(* The state machine.                                                      *)
(***************************************************************************)
InitWith(S) ==
    /\ search \in S
    /\ pc = "load"
    /\ room = <<>>
    /\ name = <<>>
    /\ wsUrl = <<>>
    /\ sockets = 0
    /\ readyState = "none"
    /\ handleMessage \in HandlerTypes
    /\ received = <<>>
    /\ calls = <<>>
    /\ faults = 0
    /\ logged = 0

Init == InitWith(SampleSearches)

InitUrl == InitWith(Searches)

\* The top level of the script (line 2 to 16): read the parameters, build
\* the URL, construct the WebSocket and install the two callbacks.
Script ==
    /\ pc = "load"
    /\ LET urlParams == URLSearchParams(search)
           r == OrDefault(Get(urlParams, ROOM), DefaultRoom)
           n == OrDefault(Get(urlParams, NAME), DefaultName)
       IN  /\ room' = r
           /\ name' = n
           /\ wsUrl' = ConnectionUrl(r, n)
    /\ sockets' = sockets + 1
    /\ readyState' = "connecting"
    /\ pc' = "done"
    /\ UNCHANGED <<search, handleMessage, received, calls, faults, logged>>

\* The open event: ws.onopen writes one line to the console.
Open ==
    /\ readyState = "connecting"
    /\ readyState' = "open"
    /\ logged' = logged + 1
    /\ UNCHANGED <<search, pc, room, name, wsUrl, sockets, handleMessage,
                   received, calls, faults>>

\* Mutant of Message: a message that parses to a string moves the client to
\* the room of that name.
MessageSwitchingRoom(data) ==
    /\ readyState = "open"
    /\ Len(received) < MaxMsgs
    /\ \E throws \in BOOLEAN :
         LET r == OnMessage(data, handleMessage, throws)
         IN  /\ received' = Append(received,
                    [data |-> data, handler |-> handleMessage,
                     steps |-> r.steps, fault |-> r.fault])
             /\ calls' = IF r.called THEN Append(calls, r.arg) ELSE calls
             /\ faults' = IF r.fault THEN faults + 1 ELSE faults
             /\ room' = IF r.called /\ r.arg.kind = "string" THEN r.arg.repr ELSE room
    /\ UNCHANGED <<search, pc, name, wsUrl, sockets, readyState,
                   handleMessage, logged>>

\* Mutant of Message: an uncaught error in the callback ends the dispatch of
\* the messages that follow.
MessageStoppedByFault(data) ==
    /\ readyState = "open"
    /\ Len(received) < MaxMsgs
    /\ \E throws \in BOOLEAN :
         LET r == OnMessage(data, handleMessage, throws)
         IN  /\ received' = Append(received,
                    [data |-> data, handler |-> handleMessage,
                     steps |-> r.steps, fault |-> r.fault])
             /\ calls' = IF r.called /\ faults = 0 THEN Append(calls, r.arg) ELSE calls
             /\ faults' = IF r.fault THEN faults + 1 ELSE faults
    /\ UNCHANGED <<search, pc, room, name, wsUrl, sockets, readyState,
                   handleMessage, logged>>

\* A message event on the open connection: the whole of ws.onmessage.
Message(data) ==
    /\ readyState = "open"
    /\ Len(received) < MaxMsgs
    /\ \E throws \in BOOLEAN :
         LET r == OnMessage(data, handleMessage, throws)
         IN  /\ received' = Append(received,
                    [data |-> data, handler |-> handleMessage,
                     steps |-> r.steps, fault |-> r.fault])
             /\ calls' = IF r.called THEN Append(calls, r.arg) ELSE calls
             /\ faults' = IF r.fault THEN faults + 1 ELSE faults
    /\ UNCHANGED <<search, pc, room, name, wsUrl, sockets, readyState,
                   handleMessage, logged>>

\* The connection fails before it opens (error, then close): the script
\* installs no onerror and no onclose.
ConnectionError ==
    /\ readyState = "connecting"
    /\ readyState' = "closed"
    /\ UNCHANGED <<search, pc, room, name, wsUrl, sockets, handleMessage,
                   received, calls, faults, logged>>

\* Mutant of Close: an onclose callback that opens a new connection.
CloseReconnecting ==
    /\ readyState = "open"
    /\ readyState' = "connecting"
    /\ sockets' = sockets + 1
    /\ UNCHANGED <<search, pc, room, name, wsUrl, handleMessage,
                   received, calls, faults, logged>>

\* The open connection closes: the script installs no onclose.
Close ==
    /\ readyState = "open"
    /\ readyState' = "closed"
    /\ UNCHANGED <<search, pc, room, name, wsUrl, sockets, handleMessage,
                   received, calls, faults, logged>>

\* Mutant of SetHandler: the last message, if it was dropped for lack of a
\* handler, is dispatched when a handler function is defined.
SetHandlerFlushing(h) ==
    /\ h # handleMessage
    /\ handleMessage' = h
    /\ calls' = IF /\ h = "function"
                   /\ received # <<>>
                   /\ received[Len(received)].steps = <<"parse", "typeof">>
                THEN Append(calls, JSONparse(received[Len(received)].data).value)
                ELSE calls
    /\ UNCHANGED <<search, pc, room, name, wsUrl, sockets, readyState,
                   received, faults, logged>>

\* Another script of the page defines, removes or rebinds the global
\* handleMessage.
SetHandler(h) ==
    /\ h # handleMessage
    /\ handleMessage' = h
    /\ UNCHANGED <<search, pc, room, name, wsUrl, sockets, readyState,
                   received, calls, faults, logged>>

Next ==
    \/ Script
    \/ Open
    \/ \E data \in Frames : Message(data)
    \/ ConnectionError
    \/ Close
    \/ \E h \in HandlerTypes : SetHandler(h)

Spec == Init /\ [][Next]_vars

\* The runs that only build the connection URL, over every query string.
NextUrl == Script

SpecUrl == InitUrl /\ [][NextUrl]_vars

(***************************************************************************)
(* Properties.                                                             *)
(***************************************************************************)
Last(s) == s[Len(s)]

Range(s) == {s[i] : i \in DOMAIN s}

\* The step delivers a message event.
Delivered == Len(received') = Len(received) + 1

\* The page's parameter `key`, as urlParams.get reads it.
PageParam(key) == Get(URLSearchParams(search), key)

UrlWith(r, n) ==
    serverUrl \o <<"?", "r", "o", "o", "m", "=">> \o r
              \o <<"&", "n", "a", "m", "e", "=">> \o n

\* C1 as stated: the URL is the server address, then ?room= with the page's
\* room parameter when it is present and "default" otherwise, then &name=
\* with the page's name parameter when it is present and "anonymous"
\* otherwise.
C1_AsStated ==
    pc = "done" =>
        wsUrl = UrlWith(
            IF PageParam(ROOM).present THEN PageParam(ROOM).value ELSE DefaultRoom,
            IF PageParam(NAME).present THEN PageParam(NAME).value ELSE DefaultName)

\* C1, amended: the URL is the server address, then ?room= with the page's
\* room parameter when it is present and not empty and "default" otherwise,
\* then &name= with the page's name parameter when it is present and not
\* empty and "anonymous" otherwise.
C1_ConnectionUrl ==
    pc = "done" =>
        wsUrl = UrlWith(
            IF PageParam(ROOM).present /\ PageParam(ROOM).value # <<>>
                THEN PageParam(ROOM).value ELSE DefaultRoom,
            IF PageParam(NAME).present /\ PageParam(NAME).value # <<>>
                THEN PageParam(NAME).value ELSE DefaultName)

\* The script has run on a page that gives a room and leaves the name empty.
C1_Witness ==
    /\ pc = "done"
    /\ PageParam(ROOM).present /\ PageParam(ROOM).value = <<"a">>
    /\ PageParam(NAME).present /\ PageParam(NAME).value = <<>>

\* The number of the first i message events that invoked handleMessage.
CallsUpTo(i) == Cardinality({j \in 1..i : "call" \in Range(received[j].steps)})

\* C2: whenever a message event invokes handleMessage, the argument is the
\* result of JSON.parse on that event's data, never the raw text, and the
\* parse is the first statement run, before the typeof test and the call.
C2_ParsedBeforeDispatch ==
    /\ Len(calls) = CallsUpTo(Len(received))
    /\ \A i \in DOMAIN received :
         "call" \in Range(received[i].steps) =>
            /\ JSONparse(received[i].data).ok
            /\ calls[CallsUpTo(i)] = JSONparse(received[i].data).value
            /\ calls[CallsUpTo(i)] # StringValue(received[i].data)
            /\ received[i].steps = <<"parse", "typeof", "call">>

\* handleMessage has been invoked with the array parsed from a frame that
\* has blanks around it.
C2_Witness ==
    \E i \in DOMAIN received :
        /\ "call" \in Range(received[i].steps)
        /\ received[i].data[1] = " "
        /\ calls[CallsUpTo(i)].kind = "array"

\* C3: handleMessage is invoked only in the callback of a message that
\* arrives while handleMessage is a function, and with that message; a
\* message that arrived while it was not a function is never dispatched,
\* also not when a handler is defined later.
C3_DispatchOnlyIfHandler ==
    /\ [][calls' # calls =>
            /\ Delivered
            /\ handleMessage = "function"
            /\ calls' = Append(calls, JSONparse(Last(received').data).value)]_vars
    /\ [](\A i \in DOMAIN received :
            received[i].handler # "function" =>
                "call" \notin Range(received[i].steps))

\* A message with valid JSON was dropped while no handler was defined, a
\* handler function has been defined since, and nothing was dispatched.
C3_Witness ==
    /\ received # <<>>
    /\ received[1].handler = "undefined"
    /\ JSONparse(received[1].data).ok
    /\ handleMessage = "function"
    /\ calls = <<>>

\* C4: a message whose data is not valid JSON ends its callback in an
\* uncaught error and does not invoke handleMessage, whatever handleMessage
\* is.
C4_MalformedFaults ==
    [][Delivered /\ ~JSONparse(Last(received').data).ok =>
            /\ faults' = faults + 1
            /\ Last(received').fault
            /\ calls' = calls]_vars

\* A malformed message has faulted while a handler function was defined.
C4_Witness ==
    \E i \in DOMAIN received :
        /\ ~JSONparse(received[i].data).ok
        /\ received[i].handler = "function"
        /\ received[i].fault
        /\ faults > 0

\* C5 as stated: a message with valid JSON that arrives while no handler
\* function is defined ends its callback in an uncaught error.
C5_AsStated ==
    \A i \in DOMAIN received :
        JSONparse(received[i].data).ok /\ received[i].handler # "function" =>
            received[i].fault

\* C5, amended: a message with valid JSON that arrives while no handler
\* function is defined is dropped: its callback returns without an error
\* and without invoking handleMessage.
C5_AbsentHandlerDrops ==
    [][Delivered /\ JSONparse(Last(received').data).ok /\ handleMessage # "function" =>
            /\ faults' = faults
            /\ ~Last(received').fault
            /\ calls' = calls]_vars

\* A message with valid JSON arrived with no global handleMessage and no
\* error was raised.
C5_Witness ==
    /\ received # <<>>
    /\ JSONparse(Last(received).data).ok
    /\ Last(received).handler = "undefined"
    /\ faults = 0

C7_RoomFixed ==
    [][readyState # "none" => room' = room /\ wsUrl' = wsUrl]_vars

\* The connection to room a has opened, dispatched a message and closed.
C7_Witness ==
    /\ readyState = "closed"
    /\ calls # <<>>
    /\ room = <<"a">>
    /\ wsUrl = UrlWith(<<"a">>, DefaultName)

\* The arguments handleMessage is due, in order: the parsed data of the
\* events that parse and arrived while handleMessage was a function.
RECURSIVE Dispatchable(_)
Dispatchable(events) ==
    IF events = <<>> THEN <<>>
    ELSE LET e == events[1]
             p == JSONparse(e.data)
         IN  (IF p.ok /\ e.handler = "function" THEN <<p.value>> ELSE <<>>)
                \o Dispatchable(Tail(events))

\* C8: the invocations of handleMessage are exactly the message events that
\* parse and arrive while handleMessage is a function, in arrival order and
\* once each; faulting and dropped events change nothing for later ones.
C8_DispatchSequence == calls = Dispatchable(received)

\* A message was dispatched after an earlier one faulted on parse.
C8_Witness ==
    /\ Len(received) >= 2
    /\ ~JSONparse(received[1].data).ok
    /\ received[1].fault
    /\ calls = <<JSONparse(received[2].data).value>>

\* The part of a URL between its first "?" and its first "#".
QueryOf(url) ==
    LET q == IndexFrom(url, "?", 1)
        rest == SubSeq(url, q + 1, Len(url))
    IN  SubSeq(rest, 1, IndexFrom(rest, "#", 1) - 1)

\* A query split on "&" and each piece on its first "=".
SplitParams(query) ==
    LET ps == Split(query, "&")
    IN  [i \in DOMAIN ps |->
            LET j == IndexFrom(ps[i], "=", 1)
            IN  [name |-> SubSeq(ps[i], 1, j - 1),
                 value |-> SubSeq(ps[i], j + 1, Len(ps[i]))]]

\* C9: the query of the connection URL splits into exactly two parameters,
\* room and name, whose values are the ones the script read.
C9_QueryRoundTrip ==
    pc = "done" =>
        SplitParams(QueryOf(wsUrl)) =
            <<[name |-> ROOM, value |-> room], [name |-> NAME, value |-> name]>>

\* C10: the room and the name in the connection URL are never empty: a
\* parameter that is present and empty gives the default, as an absent one
\* does, and a value that is not empty is used as it was read.
C10_NeverEmpty ==
    pc = "done" =>
        /\ room # <<>> /\ name # <<>>
        /\ wsUrl = UrlWith(room, name)
        /\ \A key \in {ROOM, NAME} :
             LET v == IF key = ROOM THEN room ELSE name
                 d == IF key = ROOM THEN DefaultRoom ELSE DefaultName
             IN  /\ ~PageParam(key).present => v = d
                 /\ PageParam(key).present /\ PageParam(key).value = <<>> => v = d
                 /\ PageParam(key).present /\ PageParam(key).value # <<>> =>
                        v = PageParam(key).value

\* The script has run on a page whose room is present and empty and whose
\* name is given.
C10_Witness ==
    /\ pc = "done"
    /\ PageParam(ROOM).present /\ PageParam(ROOM).value = <<>>
    /\ room = DefaultRoom
    /\ name = <<"b">>

====
